---- MODULE Spec2Model ----
(***************************************************************************)
(* Model of Loops03For.py: the for-loop lesson.                            *)
(*                                                                         *)
(* Two independent parts share the module:                                 *)
(*   - the text file handled by ensure_file / count_lines / append_lines   *)
(*     and by the file section of demo (Spec, SpecAnyFile);                *)
(*   - the pure list functions, applied to inputs drawn from bounded sets  *)
(*     (SpecPure).                                                         *)
(*                                                                         *)
(* A text is a sequence of characters.  The characters that matter are the *)
(* two line-break characters LF and CR and ordinary characters; the words  *)
(* written by demo are kept as single ordinary tokens.                     *)
(***************************************************************************)
EXTENDS Integers, Sequences, FiniteSets, TLC

VARIABLES
    exists,     \* the file at the path exists
    content,    \* its text (<<>> while it does not exist)
    op,         \* the operation that ran last
    arg,        \* the lines handed to the last append_lines
    old,        \* [exists, content] right before the last operation
    ret,        \* what the last operation returned, if it was count_lines
    printed,    \* <<before, after, after - before>>, if it was demo
    total,      \* number of lines handed to append_lines so far
    clean,      \* every line handed to append_lines so far was break-free
    called,     \* the pure function applied last
    args,       \* its arguments
    result      \* its return value

fileVars == <<exists, content, op, arg, old, ret, printed, total, clean>>
pureVars == <<called, args, result>>
vars == <<exists, content, op, arg, old, ret, printed, total, clean,
          called, args, result>>

----------------------------------------------------------------------------
(* Bounds *)

MaxLines == 2       \* lines in one append_lines call
MaxInit == 2        \* characters of a file that exists before the first call
MaxContent == 6     \* appends are explored on files up to this length
MaxLen == 3         \* length of an input list of a pure function
MaxAbs == 2         \* input integers range over -MaxAbs..MaxAbs
MaxN == 10          \* n of squares_until / even_squares_until is in 0..MaxN

----------------------------------------------------------------------------
(* Values *)

LF == "\n"
CR == "\r"
Char == {"a", LF, CR}

\* Python's None and a present value, kept apart from the integers.
None == <<>>
Some(v) == <<v>>

SeqsUpTo(S, n) == UNION {[1..k -> S] : k \in 0..n}

Min(a, b) == IF a <= b THEN a ELSE b

----------------------------------------------------------------------------
(* Text-mode file I/O (open(..., encoding="utf-8"), newline=None) *)

\* os.linesep of the platform the lesson runs on (POSIX).
linesep == <<LF>>

\* Writing in text mode: every "\n" of the text becomes os.linesep.
RECURSIVE TextWrite(_)
TextWrite(s) ==
    IF s = <<>> THEN <<>>
    ELSE (IF Head(s) = LF THEN linesep ELSE <<Head(s)>>) \o TextWrite(Tail(s))

\* Reading in text mode (universal newlines): "\r\n" and a lone "\r" are
\* both handed to the program as "\n".
RECURSIVE TextRead(_)
TextRead(raw) ==
    IF raw = <<>> THEN <<>>
    ELSE IF Head(raw) = CR
         THEN IF Len(raw) >= 2 /\ raw[2] = LF
              THEN <<LF>> \o TextRead(Tail(Tail(raw)))
              ELSE <<LF>> \o TextRead(Tail(raw))
         ELSE <<Head(raw)>> \o TextRead(Tail(raw))

\* Iterating over the file handle: the lines of the text, each with its
\* terminating "\n"; the last one has none when the text does not end in one.
RECURSIVE SplitLines(_, _)
SplitLines(text, cur) ==
    IF text = <<>> THEN (IF cur = <<>> THEN <<>> ELSE <<cur>>)
    ELSE IF Head(text) = LF
         THEN <<Append(cur, LF)>> \o SplitLines(Tail(text), <<>>)
         ELSE SplitLines(Tail(text), Append(cur, Head(text)))

FileLines(raw) == SplitLines(TextRead(raw), <<>>)

\* Faulty variant of rstrip: drops one trailing "\n" only.
rstrip_once(s) ==
    IF s /= <<>> /\ s[Len(s)] = LF THEN SubSeq(s, 1, Len(s) - 1) ELSE s

\* str.rstrip("\n"): drop every trailing "\n", and nothing else.
RECURSIVE rstrip(_)
rstrip(s) ==
    IF s /= <<>> /\ s[Len(s)] = LF THEN rstrip(SubSeq(s, 1, Len(s) - 1)) ELSE s

----------------------------------------------------------------------------
(* The file operations, as functions of the file f = [exists, content] *)

\* Faulty variant of ensure_file: creates the file by opening it for writing.
ensure_file_truncating(f) == [exists |-> TRUE, content |-> <<>>]

\* path.parent.mkdir(parents=True, exist_ok=True); path.touch(exist_ok=True):
\* a missing file is created empty, an existing one keeps its content.
ensure_file(f) ==
    [exists |-> TRUE, content |-> IF f.exists THEN f.content ELSE <<>>]

\* for _ in f: count += 1
RECURSIVE CountLoop(_, _)
CountLoop(lines, count) ==
    IF lines = <<>> THEN count ELSE CountLoop(Tail(lines), count + 1)

count_lines(f) ==
    LET g == ensure_file(f)
    IN  [file |-> g, ret |-> CountLoop(FileLines(g.content), 0)]

\* Faulty variant of WriteLine: the line is written as given, plus "\n".
WriteLine_unstripped(line) == TextWrite(line \o <<LF>>)

\* f.write(line.rstrip("\n") + "\n")
WriteLine(line) == TextWrite(rstrip(line) \o <<LF>>)

\* Faulty variant of WriteLoop: "\n" between the lines, none after the last.
RECURSIVE WriteLoop_joined(_, _)
WriteLoop_joined(text, lines) ==
    IF lines = <<>> THEN text
    ELSE WriteLoop_joined(
             text \o TextWrite(rstrip(Head(lines)))
                  \o (IF Len(lines) > 1 THEN TextWrite(<<LF>>) ELSE <<>>),
             Tail(lines))

\* for line in lines: f.write(...), on a handle opened in mode "a"
RECURSIVE WriteLoop(_, _)
WriteLoop(text, lines) ==
    IF lines = <<>> THEN text
    ELSE WriteLoop(text \o WriteLine(Head(lines)), Tail(lines))

append_lines(f, lines) ==
    LET g == ensure_file(f)
    IN  [g EXCEPT !.content = WriteLoop(g.content, lines)]

\* The lines demo appends.
DemoLines == << <<"pierwsza">>, <<"druga">>, <<"trzecia">> >>

\* demo, file section: before = count_lines(p); append_lines(p, [...]);
\* after = count_lines(p); print(before, after, after - before)
demo_file(f) ==
    LET c1 == count_lines(f)
        f2 == append_lines(c1.file, DemoLines)
        c2 == count_lines(f2)
    IN  [file |-> c2.file, before |-> c1.ret, after |-> c2.ret,
         printed |-> <<c1.ret, c2.ret, c2.ret - c1.ret>>]

----------------------------------------------------------------------------
(* Inputs of append_lines *)

\* The text of a line: the line without its trailing "\n"s.
Stem(line) ==
    LET n == CHOOSE k \in 0..Len(line) :
                 /\ \A i \in (k + 1)..Len(line) : line[i] = LF
                 /\ (k = 0 \/ line[k] /= LF)
    IN  SubSeq(line, 1, n)

\* A line is break-free when it holds no "\r" and no "\n" other than
\* trailing ones.
BreakFree(line) == \A i \in 1..Len(Stem(line)) : line[i] \notin {LF, CR}

AllBreakFree(lines) == \A i \in 1..Len(lines) : BreakFree(lines[i])

Lines ==
    { <<>>, <<"a">>, <<"a", LF>>, <<"a", LF, LF>>,
      <<"a", LF, "a">>, <<"a", CR>>, <<CR, "a">> }

Batches == SeqsUpTo(Lines, MaxLines)

----------------------------------------------------------------------------
(* The file: state machine *)

File == [exists |-> exists, content |-> content]

InitPureIdle == called = "none" /\ args = <<>> /\ result = None

InitFileWith(e, c) ==
    /\ exists = e
    /\ content = c
    /\ op = "none"
    /\ arg = <<>>
    /\ old = [exists |-> e, content |-> c]
    /\ ret = None
    /\ printed = None
    /\ total = 0
    /\ clean = TRUE

\* The file does not exist yet.
Init == InitFileWith(FALSE, <<>>) /\ InitPureIdle

\* The file is absent, or was left by someone else with any content.
InitAnyFile ==
    /\ \E e \in BOOLEAN :
         \E c \in (IF e THEN SeqsUpTo(Char, MaxInit) ELSE {<<>>}) :
            InitFileWith(e, c)
    /\ InitPureIdle

do_ensure_file ==
    LET g == ensure_file(File)
    IN  /\ exists' = g.exists
        /\ content' = g.content
        /\ op' = "ensure_file"
        /\ arg' = <<>>
        /\ old' = File
        /\ ret' = None
        /\ printed' = None
        /\ UNCHANGED <<total, clean>>
        /\ UNCHANGED pureVars

do_count_lines ==
    LET c == count_lines(File)
    IN  /\ exists' = c.file.exists
        /\ content' = c.file.content
        /\ op' = "count_lines"
        /\ arg' = <<>>
        /\ old' = File
        /\ ret' = Some(c.ret)
        /\ printed' = None
        /\ UNCHANGED <<total, clean>>
        /\ UNCHANGED pureVars

do_append_lines ==
    /\ Len(content) <= MaxContent
    /\ \E lines \in Batches :
         LET g == append_lines(File, lines)
         IN  /\ exists' = g.exists
             /\ content' = g.content
             /\ op' = "append_lines"
             /\ arg' = lines
             /\ old' = File
             /\ total' = total + Len(lines)
             /\ clean' = (clean /\ AllBreakFree(lines))
             /\ ret' = None
             /\ printed' = None
             /\ UNCHANGED pureVars

do_demo ==
    /\ Len(content) <= MaxContent
    /\ LET d == demo_file(File)
       IN  /\ exists' = d.file.exists
           /\ content' = d.file.content
           /\ op' = "demo"
           /\ arg' = DemoLines
           /\ old' = File
           /\ ret' = None
           /\ printed' = d.printed
           /\ total' = total + Len(DemoLines)
           /\ UNCHANGED clean
           /\ UNCHANGED pureVars

Next == do_ensure_file \/ do_count_lines \/ do_append_lines \/ do_demo

Spec == Init /\ [][Next]_vars

SpecAnyFile == InitAnyFile /\ [][Next]_vars

----------------------------------------------------------------------------
(* Properties of the file operations *)

IsPrefix(s, t) == Len(s) <= Len(t) /\ SubSeq(t, 1, Len(s)) = s

\* The file is absent or empty, or its text ends with "\n".
Terminated(f) ==
    ~f.exists \/ f.content = <<>> \/ f.content[Len(f.content)] = LF

\* What count_lines would return on file f.
LineCount(f) == count_lines(f).ret

\* The lines append_lines is asked to add, as a reader should see them.
Added(lines) == [i \in 1..Len(lines) |-> Stem(lines[i]) \o <<LF>>]

\* C1, as claimed: whatever the file held (or absent) and whatever the
\* lines, count_lines after append_lines(path, L) is count_lines before
\* plus len(L).
C1_CountGrowsByLen_Any ==
    op = "append_lines" => LineCount(File) = LineCount(old) + Len(arg)

\* C1, amended: when the file was absent, empty or ended with "\n", and
\* no line of L holds "\r" or a non-trailing "\n", count_lines after
\* append_lines(path, L) is count_lines before plus len(L); demo, run on
\* such a file, prints a difference of 3.
C1_CountGrowsByLen ==
    /\ (op = "append_lines" /\ Terminated(old) /\ AllBreakFree(arg))
          => LineCount(File) = LineCount(old) + Len(arg)
    /\ (op = "demo" /\ Terminated(old))
          => /\ printed[1] = LineCount(old)
             /\ printed[2] = printed[1] + Len(DemoLines)
             /\ printed[3] = Len(DemoLines)

C1_Witness ==
    /\ op = "append_lines"
    /\ old.exists /\ old.content /= <<>> /\ Terminated(old)
    /\ arg = << <<"a", LF, LF>>, <<>> >>
    /\ LineCount(old) = 2
    /\ LineCount(File) = 4

\* The file's records as they lie on disk: split after every "\n".
RawLines(raw) == SplitLines(raw, <<>>)

NoInnerLF(line) == \A i \in 1..Len(Stem(line)) : line[i] /= LF

AllNoInnerLF(lines) == \A i \in 1..Len(lines) : NoInnerLF(lines[i])

\* C2, as claimed: after append_lines(path, L) the file holds the lines it
\* held before, unchanged and in order, followed by the lines of L in
\* order, each ended by exactly one "\n".
C2_LinesPreserved_Any ==
    op = "append_lines"
        => RawLines(content) = RawLines(old.content) \o Added(arg)

\* C2, amended: the old text is always a prefix of the new text; when the
\* file was absent, empty or ended with "\n" and no line of L holds a
\* non-trailing "\n", the file holds its old lines followed by the lines
\* of L, each ended by exactly one "\n"; when the lines of L hold no "\r"
\* either, that is also what a reader of the file is handed.
C2_LinesPreserved ==
    op = "append_lines"
        => /\ IsPrefix(old.content, content)
           /\ (Terminated(old) /\ AllNoInnerLF(arg))
                 => RawLines(content) = RawLines(old.content) \o Added(arg)
           /\ (Terminated(old) /\ AllBreakFree(arg))
                 => FileLines(content) = FileLines(old.content) \o Added(arg)

C2_Witness ==
    /\ op = "append_lines"
    /\ old.content = <<"a", LF>>
    /\ arg = << <<"a", LF, LF>>, <<"a">> >>
    /\ RawLines(content) = << <<"a", LF>>, <<"a", LF>>, <<"a", LF>> >>

\* C8: the file is never deleted (once it exists it exists after every
\* operation), ensure_file and count_lines leave the text of an existing
\* file unchanged, and after every operation the previous text is a
\* prefix of the new text.
C8_AppendOnly ==
    /\ old.exists => exists
    /\ op /= "none" => exists
    /\ (op \in {"ensure_file", "count_lines"} /\ old.exists)
          => content = old.content
    /\ (op \in {"ensure_file", "count_lines"} /\ ~old.exists)
          => content = <<>>
    /\ IsPrefix(old.content, content)

C8_Witness ==
    /\ op = "ensure_file"
    /\ old.exists
    /\ old.content = <<"a", LF>>
    /\ content = <<"a", LF>>
    /\ total > 0

\* C10: from an absent file, as long as every line handed to append_lines
\* was free of embedded line breaks, the text is empty or ends with "\n"
\* and count_lines returns the number of lines handed to append_lines so
\* far: 0 on the first access, which creates the empty file, and 3k after
\* k runs of demo alone.
C10_CountIsTotal ==
    clean =>
        /\ content = <<>> \/ content[Len(content)] = LF
        /\ LineCount(File) = total
        /\ op = "count_lines" => ret = Some(total)
        /\ (op = "count_lines" /\ ~old.exists)
              => ret = Some(0) /\ exists /\ content = <<>>
        /\ op = "demo" => printed = <<total - 3, total, 3>>

C10_Witness ==
    /\ clean
    /\ op = "demo"
    /\ printed = <<3, 6, 3>>
    /\ content = WriteLoop(WriteLoop(<<>>, DemoLines), DemoLines)

----------------------------------------------------------------------------
(* The pure functions *)

\* range(n): 0, 1, ..., n - 1 (empty when n <= 0)
range(n) == [i \in 1..n |-> i - 1]

\* Faulty variant of iterate_list: each element is put in front (out.insert(0, x)).
RECURSIVE IterPrepend(_, _)
IterPrepend(xs, out) ==
    IF xs = <<>> THEN out ELSE IterPrepend(Tail(xs), <<Head(xs)>> \o out)
iterate_list_prepend(xs) == IterPrepend(xs, <<>>)

\* for x in xs: out.append(x)
RECURSIVE IterLoop(_, _)
IterLoop(xs, out) ==
    IF xs = <<>> THEN out ELSE IterLoop(Tail(xs), Append(out, Head(xs)))

iterate_list(xs) == IterLoop(xs, <<>>)

\* Faulty variant of with_zip: loops over range(min(len) - 1), dropping the last pair.
with_zip_short(names, ages) ==
    [i \in 1..(Min(Len(names), Len(ages)) - 1) |-> <<names[i], ages[i]>>]

\* for n, a in zip(names, ages): pairs.append((n, a));
\* zip stops as soon as either list is exhausted.
RECURSIVE ZipLoop(_, _, _)
ZipLoop(names, ages, pairs) ==
    IF names = <<>> \/ ages = <<>> THEN pairs
    ELSE ZipLoop(Tail(names), Tail(ages),
                 Append(pairs, <<Head(names), Head(ages)>>))

with_zip(names, ages) == ZipLoop(names, ages, <<>>)

\* Faulty variant of find_first_even: the else hangs on the if, not on the for.
RECURSIVE FindIfElse(_, _)
FindIfElse(nums, else_ran) ==
    IF nums = <<>> THEN <<None, else_ran>>
    ELSE IF Head(nums) % 2 = 0 THEN <<Some(Head(nums)), else_ran>>
    ELSE FindIfElse(Tail(nums), TRUE)
find_first_even_if_else(nums) == FindIfElse(nums, FALSE)

\* Faulty variant of find_first_even: no break, the loop runs to the end.
RECURSIVE FindNoBreak(_, _)
FindNoBreak(nums, first) ==
    IF nums = <<>> THEN <<first, TRUE>>
    ELSE FindNoBreak(Tail(nums),
                     IF Head(nums) % 2 = 0 THEN Some(Head(nums)) ELSE first)
find_first_even_no_break(nums) == FindNoBreak(nums, None)

\* for n in nums: if n % 2 == 0: first = n; break
\* else: else_ran = True
\* (first = None, else_ran = False before the loop)
RECURSIVE FindLoop(_)
FindLoop(nums) ==
    IF nums = <<>> THEN <<None, TRUE>>
    ELSE IF Head(nums) % 2 = 0 THEN <<Some(Head(nums)), FALSE>>
    ELSE FindLoop(Tail(nums))

find_first_even(nums) == FindLoop(nums)

\* Faulty variant of odds_only: keeps n when its remainder is 1 with a remainder
\* that takes the sign of n (so no negative number is kept).
RECURSIVE OddsTruncRem(_, _)
OddsTruncRem(nums, out) ==
    IF nums = <<>> THEN out
    ELSE OddsTruncRem(Tail(nums),
                      IF Head(nums) > 0 /\ Head(nums) % 2 = 1
                      THEN Append(out, Head(nums)) ELSE out)
odds_only_trunc_rem(nums) == OddsTruncRem(nums, <<>>)

\* for n in nums: if n % 2 == 0: continue; out.append(n)
\* (Python's % with a positive modulus is never negative, like TLA+'s)
RECURSIVE OddsLoop(_, _)
OddsLoop(nums, out) ==
    IF nums = <<>> THEN out
    ELSE IF Head(nums) % 2 = 0 THEN OddsLoop(Tail(nums), out)
    ELSE OddsLoop(Tail(nums), Append(out, Head(nums)))

odds_only(nums) == OddsLoop(nums, <<>>)

\* Faulty variant of squares_until: squares of 1..n.
squares_until_from_one(n) == [i \in 1..n |-> i * i]

\* [i * i for i in range(n)]
RECURSIVE SquaresLoop(_, _)
SquaresLoop(r, out) ==
    IF r = <<>> THEN out
    ELSE SquaresLoop(Tail(r), Append(out, Head(r) * Head(r)))

squares_until(n) == SquaresLoop(range(n), <<>>)

\* [i * i for i in range(n) if i % 2 == 0]
RECURSIVE EvenSquaresLoop(_, _)
EvenSquaresLoop(r, out) ==
    IF r = <<>> THEN out
    ELSE IF Head(r) % 2 = 0
         THEN EvenSquaresLoop(Tail(r), Append(out, Head(r) * Head(r)))
         ELSE EvenSquaresLoop(Tail(r), out)

even_squares_until(n) == EvenSquaresLoop(range(n), <<>>)

----------------------------------------------------------------------------
(* Inputs of the pure functions: bounded lists, and the lists demo passes *)

IntVals == (-MaxAbs)..MaxAbs
IntLists == SeqsUpTo(IntVals, MaxLen)
Names == {"Ala", "Ola"}
Ages == {25, 30}

DemoList == <<1, 2, 3>>
DemoNums == <<1, 3, 5, 8, 9>>
DemoOdds == <<1, 2, 3, 4, 5, 6>>
DemoNames == <<"Ala", "Ola", "Ewa">>
DemoAges == <<25, 30, 22>>

----------------------------------------------------------------------------
(* The pure functions: one action per function, applied to a drawn input *)

\* A call is made by a caller that holds no result (Idle); the functions
\* keep no state between calls.
Idle == called = "none"

Call(fn, a, r) ==
    /\ called' = fn
    /\ args' = a
    /\ result' = r
    /\ UNCHANGED fileVars

call_iterate_list ==
    /\ Idle
    /\ \E xs \in IntLists \cup {DemoList} :
        Call("iterate_list", <<xs>>, iterate_list(xs))

call_with_zip ==
    /\ Idle
    /\ \E names \in SeqsUpTo(Names, MaxLen) \cup {DemoNames} :
        \E ages \in SeqsUpTo(Ages, MaxLen) \cup {DemoAges} :
            Call("with_zip", <<names, ages>>, with_zip(names, ages))

call_find_first_even ==
    /\ Idle
    /\ \E nums \in IntLists \cup {DemoNums} :
        Call("find_first_even", <<nums>>, find_first_even(nums))

call_odds_only ==
    /\ Idle
    /\ \E nums \in IntLists \cup {DemoOdds} :
        Call("odds_only", <<nums>>, odds_only(nums))

call_squares_until ==
    /\ Idle
    /\ \E n \in 0..MaxN : Call("squares_until", <<n>>, squares_until(n))

call_even_squares_until ==
    /\ Idle
    /\ \E n \in 0..MaxN :
        Call("even_squares_until", <<n>>, even_squares_until(n))

\* The caller is done with the result.
call_return ==
    /\ called /= "none"
    /\ called' = "none"
    /\ args' = <<>>
    /\ result' = None
    /\ UNCHANGED fileVars

NextPure ==
    \/ call_return
    \/ call_iterate_list
    \/ call_with_zip
    \/ call_find_first_even
    \/ call_odds_only
    \/ call_squares_until
    \/ call_even_squares_until

SpecPure == Init /\ [][NextPure]_vars

----------------------------------------------------------------------------
(* Properties of the pure functions *)

\* n is even: it is twice an integer.
IsEven(n) == \E k \in (IF n < 0 THEN n ELSE -n)..(IF n < 0 THEN -n ELSE n) :
                 n = 2 * k

HasEven(nums) == \E i \in 1..Len(nums) : IsEven(nums[i])

\* C3: find_first_even(nums) returns a non-null first value and a false
\* flag whenever nums holds an even number, and null with a true flag when
\* it holds none (the empty list included).
C3_FirstEvenFlag ==
    called = "find_first_even" =>
        /\ HasEven(args[1]) => (result[1] /= None /\ result[2] = FALSE)
        /\ ~HasEven(args[1]) => (result[1] = None /\ result[2] = TRUE)

C3_Witness ==
    /\ called = "find_first_even"
    /\ args = << <<-1, 0, 2>> >>
    /\ result = <<Some(0), FALSE>>

\* C4: odds_only(nums) is exactly the subsequence of the elements of nums
\* that are not even, in their order and with their multiplicities,
\* negative numbers and zero included.
C4_OddsOnly ==
    called = "odds_only" =>
        result = SelectSeq(args[1], LAMBDA n : ~IsEven(n))

C4_Witness ==
    /\ called = "odds_only"
    /\ args = << <<-1, 0, -1>> >>
    /\ result = <<-1, -1>>

\* C5: with_zip(names, ages) has length min(len(names), len(ages)) and its
\* i-th element is (names[i], ages[i]).
C5_ZipShortest ==
    called = "with_zip" =>
        /\ Len(result) = Min(Len(args[1]), Len(args[2]))
        /\ \A i \in 1..Len(result) : result[i] = <<args[1][i], args[2][i]>>

C5_Witness ==
    /\ called = "with_zip"
    /\ Len(args[1]) = 3
    /\ Len(args[2]) = 1
    /\ result = << <<args[1][1], args[2][1]>> >>

\* The values of n the claim is about.
ClaimedNs == {0, 1, 5, 10}

\* C6: for n in {0, 1, 5, 10}, squares_until(n) is the list of i*i for
\* i = 0..n-1 in ascending order, and even_squares_until(n) the list of
\* i*i for the even i of 0..n-1 in ascending order.
C6_Squares ==
    /\ (called = "squares_until" /\ args[1] \in ClaimedNs)
          => result = [k \in 1..args[1] |-> (k - 1) * (k - 1)]
    /\ (called = "even_squares_until" /\ args[1] \in ClaimedNs)
          => result = [k \in 1..((args[1] + 1) \div 2)
                          |-> (2 * (k - 1)) * (2 * (k - 1))]

C6_Witness ==
    /\ called = "even_squares_until"
    /\ args = <<10>>
    /\ result = <<0, 4, 16, 36, 64>>

\* C7: iterate_list(xs) returns a sequence equal to xs: same length, same
\* elements, same order.
C7_IterateListEqual ==
    called = "iterate_list" =>
        /\ Len(result) = Len(args[1])
        /\ \A i \in 1..Len(args[1]) : result[i] = args[1][i]

C7_Witness ==
    /\ called = "iterate_list"
    /\ args = << <<2, -1, 2>> >>
    /\ result = <<2, -1, 2>>

\* C9: the value find_first_even returns, when not None, is the even
\* element at the smallest index of nums (everything before it is odd),
\* and else_ran is true if and only if the returned value is None.
C9_FirstEvenSmallestIndex ==
    called = "find_first_even" =>
        /\ result[1] /= None =>
              \E i \in 1..Len(args[1]) :
                  /\ result[1] = Some(args[1][i])
                  /\ IsEven(args[1][i])
                  /\ \A j \in 1..(i - 1) : ~IsEven(args[1][j])
        /\ result[2] = TRUE <=> result[1] = None

C9_Witness ==
    /\ called = "find_first_even"
    /\ args = <<DemoNums>>
    /\ result = <<Some(8), FALSE>>

====
